---- MODULE Spec2Model ----
(***************************************************************************)
(* Model of the arduino-tester repository: the module sketch (relays +     *)
(* TMP36), the LED sketch, the MeadowController HTTP facade and the        *)
(* MeadowClient wrapper.  The four programs are independent; `prog` says   *)
(* which one a behaviour runs, and `intBits` the width of `int` on the     *)
(* board the sketch is built for (16 on AVR boards, 32 on ARM boards).     *)
(*                                                                         *)
(* Text is a sequence of one-character strings.  Serial replies are        *)
(* records [msg, arg].                                                     *)
(***************************************************************************)
EXTENDS Integers, Sequences, FiniteSets, TLC

VARIABLES
    prog,             \* "modulos" | "leds" | "http" | "client"
    intBits,          \* width of int of the build
    pc,               \* sketches: "boot" | "loop" | "delay"; others: "run"
    wire,             \* characters the host has sent, not yet received by the UART
    rx,               \* UART receive buffer (Serial.available() > 0 iff non-empty)
    inputBuffer,      \* String inputBuffer
    commandComplete,  \* bool commandComplete
    estadoModulos,    \* bool estadoModulos[NUM_MODULOS] (module sketch), index 0..
    pin,              \* level last written to pinModulos[i] / pinLeds[i]
    delayLeft,        \* milliseconds the running delay() still has to block
    sent,             \* number of characters the host has sent
    lineNo,           \* history: number of '\n' read from the UART so far
    bufLines,         \* history: the lines (by number) whose characters are in inputBuffer
    rxDelayed,        \* history: rx holds characters that arrived during a delay()
    lastCmd,          \* history: last ON/OFF the dispatcher applied to each index
    disp,             \* history: the latest procesarComando call
    modules,          \* facade: _modules[i].State, index 0..2
    waits,            \* facade: Wait requests suspended in Task.Delay (their milliseconds)
    resp,             \* facade: the latest response
    nreq,             \* facade / client: number of requests served / calls made
    call              \* client: the latest method call and how it completed

vars == <<prog, intBits, pc, wire, rx, inputBuffer, commandComplete, estadoModulos,
          pin, delayLeft, sent, lineNo, bufLines, rxDelayed, lastCmd, disp,
          modules, waits, resp, nreq, call>>


-----------------------------------------------------------------------------
(* Bounds *)
MaxChars == 18      \* characters the host sends in one run
MaxReq   == 3       \* HTTP requests / client calls in one run
MaxWaits == 1       \* Wait requests suspended at the same time

(* Program constants *)
NUM_MODULOS == 3
NUM_LEDS    == 2
NUM_PORTS   == 3

None == [none |-> TRUE]
NL == "\n"
Whitespace == {" ", "\t", "\r", NL}
Digits == {"0", "1", "2", "3", "4", "5", "6", "7", "8", "9"}

-----------------------------------------------------------------------------
(* Arduino String helpers, as procesarComando uses them *)

RECURSIVE trimLeft(_)
trimLeft(s) == IF s # <<>> /\ Head(s) \in Whitespace THEN trimLeft(Tail(s)) ELSE s

RECURSIVE trimRight(_)
trimRight(s) ==
    IF s # <<>> /\ s[Len(s)] \in Whitespace THEN trimRight(SubSeq(s, 1, Len(s) - 1)) ELSE s

\* trim() that forgets the trailing whitespace
trim_leftOnly(s) == trimLeft(s)

\* String::trim(): drops leading and trailing whitespace
trim(s) == trimRight(trimLeft(s))

\* String::startsWith(prefix)
startsWith(s, p) == Len(s) >= Len(p) /\ SubSeq(s, 1, Len(p)) = p

\* String::substring(from): the text from 0-based index `from` to the end
substring(s, from) == IF from >= Len(s) THEN <<>> ELSE SubSeq(s, from + 1, Len(s))

DigitVal(c) ==
    CASE c = "0" -> 0 [] c = "1" -> 1 [] c = "2" -> 2 [] c = "3" -> 3 [] c = "4" -> 4
      [] c = "5" -> 5 [] c = "6" -> 6 [] c = "7" -> 7 [] c = "8" -> 8 [] c = "9" -> 9

RECURSIVE atolDigits(_, _)
atolDigits(s, acc) ==
    IF s = <<>> \/ Head(s) \notin Digits THEN acc
    ELSE atolDigits(Tail(s), acc * 10 + DigitVal(Head(s)))

\* String::toInt() is atol(): skips leading whitespace, takes an optional sign and
\* the longest run of digits; no digits give 0.  The result is a long.
atol(s) ==
    LET t == trimLeft(s) IN
    IF t # <<>> /\ Head(t) = "-" THEN 0 - atolDigits(Tail(t), 0)
    ELSE IF t # <<>> /\ Head(t) = "+" THEN atolDigits(Tail(t), 0)
    ELSE atolDigits(t, 0)

\* `int x = <long>`: on a 16-bit-int build the long is narrowed modulo 2^16; on a
\* 32-bit build long and int have the same width.
toInt(s) ==
    LET v == atol(s) IN
    IF intBits = 16
    THEN LET m == v % 65536 IN IF m >= 32768 THEN m - 65536 ELSE m
    ELSE v

Msg(m, a) == [msg |-> m, arg |-> a]

-----------------------------------------------------------------------------
(* Command vocabulary of the serial protocol *)
ON     == <<"O", "N", ":">>
OFF    == <<"O", "F", "F", ":">>
WAIT   == <<"W", "A", "I", "T", ":">>
STATUS == <<"S", "T", "A", "T", "U", "S">>
TEMP   == <<"T", "E", "M", "P">>
FOO    == <<"F", "O", "O">>

\* Lines the host sends to the module sketch (without the terminating '\n')
ModLines ==
    { ON \o <<"1">>, OFF \o <<"1">>, ON \o <<"3", "\r">>, ON \o <<"x">>,
      ON \o <<"6", "5", "5", "3", "7">>,
      STATUS, TEMP, WAIT \o <<"0">>, WAIT \o <<"1">>, <<" ">> \o FOO \o <<" ">> }

\* Lines the host sends to the LED sketch
LedLines ==
    { ON \o <<"1">>, OFF \o <<"1">>, ON \o <<"3", "\r">>, OFF \o <<"-", "1">>,
      ON \o <<"6", "5", "5", "3", "7">>, STATUS, WAIT \o <<"0">>, WAIT \o <<"1">> }

\* Raw samples analogRead() can return (read only by leerTemperatura)
Samples == {0, 614}

-----------------------------------------------------------------------------
(* Module sketch: pin driver *)

\* encenderModulo() that records the state at the following index
encenderModulo_nextIndex(indice, hw) ==
    [estado |-> [hw.estado EXCEPT ![(indice + 1) % NUM_MODULOS] = TRUE],
     pin    |-> [hw.pin EXCEPT ![indice] = "LOW"]]

\* encenderModulo(indice): digitalWrite(pinModulos[indice], LOW); estado = true
encenderModulo(indice, hw) ==
    [estado |-> [hw.estado EXCEPT ![indice] = TRUE],
     pin    |-> [hw.pin EXCEPT ![indice] = "LOW"]]

\* apagarModulo() with the LED sketch's polarity
apagarModulo_lowOff(indice, hw) ==
    [estado |-> [hw.estado EXCEPT ![indice] = FALSE],
     pin    |-> [hw.pin EXCEPT ![indice] = "LOW"]]

\* apagarModulo(indice): digitalWrite(pinModulos[indice], HIGH); estado = false
apagarModulo(indice, hw) ==
    [estado |-> [hw.estado EXCEPT ![indice] = FALSE],
     pin    |-> [hw.pin EXCEPT ![indice] = "HIGH"]]

\* mostrarEstadoModulos() with the two labels swapped
mostrarEstadoModulos_swapped(hw) ==
    <<Msg("Estado de los modulos:", 0)>> \o
    [i \in 1..NUM_MODULOS |->
        Msg("Modulo", <<i, IF hw.estado[i - 1] THEN "OFF" ELSE "ON">>)]

\* mostrarEstadoModulos(): a header line, then one line per module in index order
mostrarEstadoModulos(hw) ==
    <<Msg("Estado de los modulos:", 0)>> \o
    [i \in 1..NUM_MODULOS |->
        Msg("Modulo", <<i, IF hw.estado[i - 1] THEN "ON" ELSE "OFF">>)]

\* leerTemperatura(): (raw * 5.0/1023.0 - 0.5) * 100.0, printed with two decimals;
\* the value is kept in hundredths of a degree, rounded to nearest
temperatura(raw) == ((raw * 100000 + 1023) \div 2046) - 5000

leerTemperatura(raw) == <<Msg("Temperatura", temperatura(raw))>>

\* What a procesarComando call does: the hardware state it leaves, the lines it
\* prints before and after its delay(), the delay it asks for (-1: none) and the
\* ON/OFF it applied (history).  The host's lines carry no negative WAIT argument,
\* so tiempoEspera >= 0 and delay()'s conversion to unsigned long keeps its value.
Outcome(hw, reply, delay, after, applied) ==
    [hw |-> hw, reply |-> reply, delay |-> delay, after |-> after, applied |-> applied]

\* procesarComando of the module sketch; raw is the sample analogRead() returns
procesarComandoMod(comando, hw, raw) ==
    LET c == trim(comando) IN
    IF startsWith(c, ON) THEN
        LET modulo == toInt(substring(c, 3)) IN
        IF modulo >= 1 /\ modulo <= NUM_MODULOS
        THEN Outcome(encenderModulo(modulo - 1, hw),
                     <<Msg("Modulo encendido", modulo)>>, -1, <<>>, <<"on", modulo - 1>>)
        ELSE Outcome(hw, <<Msg("Error: Numero de modulo invalido", 0)>>, -1, <<>>, None)
    ELSE IF startsWith(c, OFF) THEN
        LET modulo == toInt(substring(c, 4)) IN
        IF modulo >= 1 /\ modulo <= NUM_MODULOS
        THEN Outcome(apagarModulo(modulo - 1, hw),
                     <<Msg("Modulo apagado", modulo)>>, -1, <<>>, <<"off", modulo - 1>>)
        ELSE Outcome(hw, <<Msg("Error: Numero de modulo invalido", 0)>>, -1, <<>>, None)
    ELSE IF c = STATUS THEN
        Outcome(hw, mostrarEstadoModulos(hw), -1, <<>>, None)
    ELSE IF c = TEMP THEN
        Outcome(hw, leerTemperatura(raw), -1, <<>>, None)
    ELSE IF startsWith(c, WAIT) THEN
        LET tiempoEspera == toInt(substring(c, 5)) IN
        Outcome(hw, <<Msg("Esperando ms", tiempoEspera)>>, tiempoEspera, <<>>, None)
    ELSE Outcome(hw, <<Msg("Comando no reconocido: ", c)>>, -1, <<>>, None)

-----------------------------------------------------------------------------
(* LED sketch: pin driver *)

\* encenderLed(indice): digitalWrite(pinLeds[indice], HIGH)
encenderLed(indice, hw) == [hw EXCEPT !.pin[indice] = "HIGH"]

\* apagarLed(indice): digitalWrite(pinLeds[indice], LOW)
apagarLed(indice, hw) == [hw EXCEPT !.pin[indice] = "LOW"]

\* procesarComando of the LED sketch
procesarComandoLed(comando, hw) ==
    LET c == trim(comando) IN
    IF startsWith(c, ON) THEN
        LET led == toInt(substring(c, 3)) IN
        IF led >= 1 /\ led <= NUM_LEDS
        THEN Outcome(encenderLed(led - 1, hw),
                     <<Msg("LED encendido", led)>>, -1, <<>>, <<"on", led - 1>>)
        ELSE Outcome(hw, <<Msg("Error: Numero de LED invalido", 0)>>, -1, <<>>, None)
    ELSE IF startsWith(c, OFF) THEN
        LET led == toInt(substring(c, 4)) IN
        IF led >= 1 /\ led <= NUM_LEDS
        THEN Outcome(apagarLed(led - 1, hw),
                     <<Msg("LED apagado", led)>>, -1, <<>>, <<"off", led - 1>>)
        ELSE Outcome(hw, <<Msg("Error: Numero de LED invalido", 0)>>, -1, <<>>, None)
    ELSE IF startsWith(c, WAIT) THEN
        LET tiempoEspera == toInt(substring(c, 5)) IN
        Outcome(hw, <<Msg("Esperando ms", tiempoEspera)>>, tiempoEspera,
                <<Msg("DONE waiting", 0)>>, None)
    ELSE Outcome(hw, <<Msg("Comando no reconocido: ", c)>>, -1, <<>>, None)

-----------------------------------------------------------------------------
(* Both sketches: the polling loop *)

\* The while (Serial.available() > 0) loop over the characters r, from the state
\* st = [buf, cc, lineNo, lines, nl]: '\n' sets commandComplete, any other
\* character is appended to inputBuffer
RECURSIVE readSerial(_, _)
readSerial(r, st) ==
    IF r = <<>> THEN st
    ELSE readSerial(Tail(r),
            IF Head(r) = NL
            THEN [st EXCEPT !.cc = TRUE, !.lineNo = @ + 1, !.nl = @ + 1]
            ELSE [st EXCEPT !.buf = Append(@, Head(r)),
                            !.lines = @ \cup {st.lineNo}])

Sketch == prog \in {"modulos", "leds"}
NumOut == IF prog = "modulos" THEN NUM_MODULOS ELSE NUM_LEDS
hwNow == [estado |-> estadoModulos, pin |-> pin]

\* setup(): every pin is made an output and driven to its "off" level
setup ==
    /\ Sketch /\ pc = "boot"
    /\ pin' = [i \in 0..(NumOut - 1) |-> IF prog = "modulos" THEN "HIGH" ELSE "LOW"]
    /\ pc' = "loop"
    /\ UNCHANGED <<prog, intBits, wire, rx, inputBuffer, commandComplete, estadoModulos,
                   delayLeft, sent, lineNo, bufLines, rxDelayed, lastCmd, disp,
                   modules, waits, resp, nreq, call>>

\* The host writes a line and its '\n' to the serial port
Send(line) ==
    /\ Sketch /\ wire = <<>>
    /\ line \in (IF prog = "modulos" THEN ModLines ELSE LedLines)
    /\ sent + Len(line) + 1 <= MaxChars
    /\ wire' = Append(line, NL)
    /\ sent' = sent + Len(line) + 1
    /\ UNCHANGED <<prog, intBits, pc, rx, inputBuffer, commandComplete, estadoModulos,
                   pin, delayLeft, lineNo, bufLines, rxDelayed, lastCmd, disp,
                   modules, waits, resp, nreq, call>>

\* The UART receives the next character (by interrupt, also during delay())
Arrive ==
    /\ Sketch /\ wire # <<>>
    /\ rx' = Append(rx, Head(wire))
    /\ wire' = Tail(wire)
    /\ rxDelayed' = (rxDelayed \/ pc = "delay")
    /\ UNCHANGED <<prog, intBits, pc, inputBuffer, commandComplete, estadoModulos,
                   pin, delayLeft, sent, lineNo, bufLines, lastCmd, disp,
                   modules, waits, resp, nreq, call>>

\* One iteration of loop() that finds characters to read, with the
\* procesarComando call r it makes when a '\n' was among them
loopWith(st, r) ==
    /\ rx' = <<>>
    /\ rxDelayed' = FALSE
    /\ lineNo' = st.lineNo
    /\ IF st.cc
       THEN /\ estadoModulos' = r.hw.estado
            /\ pin' = r.hw.pin
            /\ lastCmd' = IF r.applied = None THEN lastCmd
                          ELSE [lastCmd EXCEPT ![r.applied[2]] = r.applied[1]]
            /\ IF r.delay > 0
               THEN \* blocked inside delay(): nothing after it has run yet, and
                    \* loop() has not cleared the buffer
                    /\ pc' = "delay"
                    /\ delayLeft' = r.delay
                    /\ inputBuffer' = st.buf
                    /\ commandComplete' = TRUE
                    /\ bufLines' = st.lines
                    /\ disp' = [raw |-> st.buf, lines |-> st.lines, nl |-> st.nl,
                                fromDelay |-> rxDelayed, pre |-> hwNow,
                                reply |-> r.reply, after |-> r.after,
                                delay |-> r.delay, elapsed |-> 0, done |-> FALSE]
               ELSE \* delay(0) returns at once
                    /\ pc' = "loop"
                    /\ delayLeft' = 0
                    /\ inputBuffer' = <<>>
                    /\ commandComplete' = FALSE
                    /\ bufLines' = {}
                    /\ disp' = [raw |-> st.buf, lines |-> st.lines, nl |-> st.nl,
                                fromDelay |-> rxDelayed, pre |-> hwNow,
                                reply |-> r.reply \o r.after, after |-> <<>>,
                                delay |-> r.delay, elapsed |-> 0, done |-> TRUE]
       ELSE /\ inputBuffer' = st.buf
            /\ commandComplete' = FALSE
            /\ bufLines' = st.lines
            /\ UNCHANGED <<pc, estadoModulos, pin, delayLeft, lastCmd, disp>>
    /\ UNCHANGED <<prog, intBits, wire, sent, modules, waits, resp, nreq, call>>

readNow ==
    readSerial(rx, [buf |-> inputBuffer, cc |-> commandComplete, lineNo |-> lineNo,
                    lines |-> bufLines, nl |-> 0])

\* loop() of the module sketch
loopMod ==
    /\ prog = "modulos" /\ pc = "loop" /\ rx # <<>>
    /\ LET st == readNow IN
       \E raw \in (IF st.cc /\ trim(st.buf) = TEMP THEN Samples ELSE {0}) :
          loopWith(st, procesarComandoMod(st.buf, hwNow, raw))

\* loop() of the LED sketch
loopLed ==
    /\ prog = "leds" /\ pc = "loop" /\ rx # <<>>
    /\ LET st == readNow IN loopWith(st, procesarComandoLed(st.buf, hwNow))

\* One millisecond of a running delay() passes
Elapse ==
    /\ Sketch /\ pc = "delay" /\ delayLeft > 0
    /\ delayLeft' = delayLeft - 1
    /\ disp' = [disp EXCEPT !.elapsed = @ + 1]
    /\ UNCHANGED <<prog, intBits, pc, wire, rx, inputBuffer, commandComplete,
                   estadoModulos, pin, sent, lineNo, bufLines, rxDelayed, lastCmd,
                   modules, waits, resp, nreq, call>>

\* delay() returns: procesarComando prints what follows it and returns to loop(),
\* which clears the buffer and the flag
delayReturn ==
    /\ Sketch /\ pc = "delay" /\ delayLeft = 0
    /\ disp' = [disp EXCEPT !.reply = @ \o disp.after, !.after = <<>>, !.done = TRUE]
    /\ inputBuffer' = <<>>
    /\ commandComplete' = FALSE
    /\ bufLines' = {}
    /\ pc' = "loop"
    /\ UNCHANGED <<prog, intBits, wire, rx, estadoModulos, pin, delayLeft, sent,
                   lineNo, rxDelayed, lastCmd, modules, waits, resp, nreq, call>>

-----------------------------------------------------------------------------
(* MeadowController: the HTTP facade *)

Ids == {-1, 0, 1, 2, 3, 4}       \* module ids a request can carry
Millis == {-5, 0, 1, 2}          \* milliseconds a wait request can carry

Response(req, arg, code, body, pre, suspended, elapsed) ==
    [req |-> req, arg |-> arg, code |-> code, body |-> body, pre |-> pre,
     suspended |-> suspended, elapsed |-> elapsed]

Serving == prog = "http" /\ nreq < MaxReq

\* POST module/{id}/on
TurnModuleOn(id) ==
    /\ Serving
    /\ IF id < 1 \/ id > NUM_PORTS
       THEN /\ resp' = Response("on", id, 400, "Modulo invalido", modules, FALSE, 0)
            /\ UNCHANGED <<modules, lastCmd>>
       ELSE /\ modules' = [modules EXCEPT ![id - 1] = TRUE]
            /\ lastCmd' = [lastCmd EXCEPT ![id - 1] = "on"]
            /\ resp' = Response("on", id, 200, "Modulo encendido", modules, FALSE, 0)
    /\ nreq' = nreq + 1
    /\ UNCHANGED <<prog, intBits, pc, wire, rx, inputBuffer, commandComplete,
                   estadoModulos, pin, delayLeft, sent, lineNo, bufLines, rxDelayed,
                   disp, waits, call>>

\* POST module/{id}/off
TurnModuleOff(id) ==
    /\ Serving
    /\ IF id < 1 \/ id > NUM_PORTS
       THEN /\ resp' = Response("off", id, 400, "Modulo invalido", modules, FALSE, 0)
            /\ UNCHANGED <<modules, lastCmd>>
       ELSE /\ modules' = [modules EXCEPT ![id - 1] = FALSE]
            /\ lastCmd' = [lastCmd EXCEPT ![id - 1] = "off"]
            /\ resp' = Response("off", id, 200, "Modulo apagado", modules, FALSE, 0)
    /\ nreq' = nreq + 1
    /\ UNCHANGED <<prog, intBits, pc, wire, rx, inputBuffer, commandComplete,
                   estadoModulos, pin, delayLeft, sent, lineNo, bufLines, rxDelayed,
                   disp, waits, call>>

\* Wait that refuses negative values only
Wait_zeroAllowed(milliseconds) ==
    /\ Serving
    /\ IF milliseconds < 0
       THEN /\ resp' = Response("wait", milliseconds, 400,
                                "El tiempo de espera debe ser mayor que 0",
                                modules, FALSE, 0)
            /\ UNCHANGED waits
       ELSE /\ Len(waits) < MaxWaits
            /\ waits' = Append(waits, [ms |-> milliseconds, left |-> milliseconds])
            /\ UNCHANGED resp
    /\ nreq' = nreq + 1
    /\ UNCHANGED <<prog, intBits, pc, wire, rx, inputBuffer, commandComplete,
                   estadoModulos, pin, delayLeft, sent, lineNo, bufLines, rxDelayed,
                   lastCmd, disp, modules, call>>

\* POST wait?milliseconds=: refused when not positive, else suspended in Task.Delay
Wait(milliseconds) ==
    /\ Serving
    /\ IF milliseconds <= 0
       THEN /\ resp' = Response("wait", milliseconds, 400,
                                "El tiempo de espera debe ser mayor que 0",
                                modules, FALSE, 0)
            /\ UNCHANGED waits
       ELSE /\ Len(waits) < MaxWaits
            /\ waits' = Append(waits, [ms |-> milliseconds, left |-> milliseconds])
            /\ UNCHANGED resp
    /\ nreq' = nreq + 1
    /\ UNCHANGED <<prog, intBits, pc, wire, rx, inputBuffer, commandComplete,
                   estadoModulos, pin, delayLeft, sent, lineNo, bufLines, rxDelayed,
                   lastCmd, disp, modules, call>>

\* One millisecond passes for the suspended Wait requests
WaitElapse ==
    /\ prog = "http"
    /\ \E i \in 1..Len(waits) : waits[i].left > 0
    /\ waits' = [i \in 1..Len(waits) |->
                    IF waits[i].left > 0 THEN [waits[i] EXCEPT !.left = @ - 1]
                    ELSE waits[i]]
    /\ UNCHANGED <<prog, intBits, pc, wire, rx, inputBuffer, commandComplete,
                   estadoModulos, pin, delayLeft, sent, lineNo, bufLines, rxDelayed,
                   lastCmd, disp, modules, resp, nreq, call>>

\* Task.Delay has run out: the Wait handler resumes and answers
WaitResume(i) ==
    /\ prog = "http"
    /\ i \in 1..Len(waits) /\ waits[i].left = 0
    /\ resp' = Response("wait", waits[i].ms, 200, "DONE waiting", modules, TRUE,
                        waits[i].ms - waits[i].left)
    /\ waits' = [j \in 1..(Len(waits) - 1) |-> IF j < i THEN waits[j] ELSE waits[j + 1]]
    /\ UNCHANGED <<prog, intBits, pc, wire, rx, inputBuffer, commandComplete,
                   estadoModulos, pin, delayLeft, sent, lineNo, bufLines, rxDelayed,
                   lastCmd, disp, modules, nreq, call>>

\* GET status: the State of every port, in index order
GetModulesStatus ==
    /\ Serving
    /\ resp' = Response("status", 0, 200, [i \in 0..(NUM_PORTS - 1) |-> modules[i]],
                        modules, FALSE, 0)
    /\ nreq' = nreq + 1
    /\ UNCHANGED <<prog, intBits, pc, wire, rx, inputBuffer, commandComplete,
                   estadoModulos, pin, delayLeft, sent, lineNo, bufLines, rxDelayed,
                   lastCmd, disp, modules, waits, call>>

\* (raw * 3.3/1023.0 - 0.5) * 100, in hundredths of a degree, rounded to nearest
temperatureCelsius(raw) == ((raw * 66000 + 1023) \div 2046) - 5000

\* GET temperature[?eventName=]
GetTemperature(eventName) ==
    /\ Serving
    /\ \E raw \in Samples :
          resp' = Response("temperature", eventName, 200,
                           [Temperature |-> temperatureCelsius(raw), Event |-> eventName],
                           modules, FALSE, 0)
    /\ nreq' = nreq + 1
    /\ UNCHANGED <<prog, intBits, pc, wire, rx, inputBuffer, commandComplete,
                   estadoModulos, pin, delayLeft, sent, lineNo, bufLines, rxDelayed,
                   lastCmd, disp, modules, waits, call>>

-----------------------------------------------------------------------------
(* MeadowClient: the wrapper around the facade's routes *)

Null == [null |-> TRUE]

\* How the HTTP call of a method can go: the request fails in transport, or a
\* response arrives with a status and a body
Nets == {"transport", "2xx", "non2xx"}
\* Bodies of a response: JSON with the expected properties, JSON without them
\* (the deserialised object keeps its defaults), the JSON literal null, not JSON
Bodies == {"json", "other-json", "null", "garbage"}
Temps == {0, 2512}
Statuses == {<<FALSE, FALSE, FALSE>>, <<TRUE, FALSE, TRUE>>}

\* The outcome of a try block: it returned a value, or it threw
Returned(v) == [threw |-> FALSE, value |-> v]
Threw == [threw |-> TRUE, value |-> Null]

\* A catch clause that does not cover the exception thrown
catchException_escapes(attempt, fallback) ==
    IF attempt.threw THEN [raised |-> TRUE, result |-> Null]
    ELSE [raised |-> FALSE, result |-> attempt.value]

\* try { ... } catch (Exception ex) { log; return fallback; }
catchException(attempt, fallback) ==
    IF attempt.threw THEN [raised |-> FALSE, result |-> fallback]
    ELSE [raised |-> FALSE, result |-> attempt.value]

\* The try block of EncenderModulo / ApagarModulo / Esperar
postAttempt(net) ==
    IF net = "transport" THEN Threw
    ELSE Returned(net = "2xx")

\* EncenderModulo(numeroModulo)
EncenderModulo(numeroModulo, net) ==
    IF numeroModulo < 1 \/ numeroModulo > 3
    THEN [raised |-> FALSE, result |-> FALSE]
    ELSE catchException(postAttempt(net), FALSE)

\* ApagarModulo(numeroModulo)
ApagarModulo(numeroModulo, net) ==
    IF numeroModulo < 1 \/ numeroModulo > 3
    THEN [raised |-> FALSE, result |-> FALSE]
    ELSE catchException(postAttempt(net), FALSE)

\* Esperar(milisegundos)
Esperar(milisegundos, net) ==
    IF milisegundos <= 0
    THEN [raised |-> FALSE, result |-> FALSE]
    ELSE catchException(postAttempt(net), FALSE)

\* The try block of LeerTemperatura: Deserialize throws on text that is not JSON,
\* gives null for the literal null (data.Temperature then throws), and leaves
\* Temperature at 0 when the property is absent
leerAttempt(net, body, t) ==
    IF net = "transport" THEN Threw
    ELSE IF net = "2xx"
         THEN CASE body = "json" -> Returned(t)
                [] body = "other-json" -> Returned(0)
                [] OTHER -> Threw
         ELSE Returned(Null)

\* LeerTemperatura(nombreEvento)
LeerTemperatura(net, body, t) == catchException(leerAttempt(net, body, t), Null)

\* The try block of ObtenerEstadoModulos: a missing ModuleStatus stays null and
\* data.ModuleStatus.Length throws
estadoAttempt(net, body, st) ==
    IF net = "transport" THEN Threw
    ELSE IF net = "2xx"
         THEN IF body = "json" THEN Returned([i \in 1..Len(st) |-> st[i]]) ELSE Threw
         ELSE Returned(Null)

\* ObtenerEstadoModulos()
ObtenerEstadoModulos(net, body, st) == catchException(estadoAttempt(net, body, st), Null)

\* A caller invokes one method of the client
Invoke(method, arg, net, body, payload, r) ==
    /\ prog = "client" /\ nreq < MaxReq
    /\ call' = [method |-> method, arg |-> arg, net |-> net, body |-> body,
                payload |-> payload, raised |-> r.raised, result |-> r.result,
                failedBefore |-> (call # None /\
                                  (call.failedBefore \/ call.net # "2xx" \/ call.body # "json"))]
    /\ nreq' = nreq + 1
    /\ UNCHANGED <<prog, intBits, pc, wire, rx, inputBuffer, commandComplete,
                   estadoModulos, pin, delayLeft, sent, lineNo, bufLines, rxDelayed,
                   lastCmd, disp, modules, waits, resp>>

CallEncenderModulo ==
    \E n \in Ids, net \in Nets :
        Invoke("EncenderModulo", n, net, "json", 0, EncenderModulo(n, net))

CallApagarModulo ==
    \E n \in Ids, net \in Nets :
        Invoke("ApagarModulo", n, net, "json", 0, ApagarModulo(n, net))

CallEsperar ==
    \E ms \in Millis, net \in Nets :
        Invoke("Esperar", ms, net, "json", 0, Esperar(ms, net))

CallLeerTemperatura ==
    \E net \in Nets, body \in Bodies, t \in Temps :
        Invoke("LeerTemperatura", 0, net, body, t, LeerTemperatura(net, body, t))

CallObtenerEstadoModulos ==
    \E net \in Nets, body \in Bodies, st \in Statuses :
        Invoke("ObtenerEstadoModulos", 0, net, body, st,
               ObtenerEstadoModulos(net, body, st))

-----------------------------------------------------------------------------
(* The programs of the repository *)

Builds ==
    { [prog |-> "modulos", intBits |-> 16], [prog |-> "modulos", intBits |-> 32],
      [prog |-> "leds", intBits |-> 16], [prog |-> "leds", intBits |-> 32],
      [prog |-> "http", intBits |-> 32], [prog |-> "client", intBits |-> 32] }

\* The state after construction of the program of build b; w is what the host
\* has already written to the serial port
InitWith(b, w) ==
    /\ prog = b.prog /\ intBits = b.intBits
    /\ pc = IF Sketch THEN "boot" ELSE "run"
    /\ wire = w /\ rx = <<>>
    /\ inputBuffer = <<>> /\ commandComplete = FALSE
    /\ estadoModulos = IF prog = "modulos" THEN [i \in 0..(NUM_MODULOS - 1) |-> FALSE]
                       ELSE <<>>
    /\ pin = IF Sketch THEN [i \in 0..(NumOut - 1) |-> "INPUT"] ELSE <<>>
    /\ delayLeft = 0 /\ sent = 0 /\ lineNo = 0 /\ bufLines = {} /\ rxDelayed = FALSE
    /\ lastCmd = IF prog = "client" THEN <<>>
                 ELSE [i \in 0..((IF prog = "http" THEN NUM_PORTS ELSE NumOut) - 1) |-> "none"]
    /\ disp = None
    /\ modules = IF prog = "http" THEN [i \in 0..(NUM_PORTS - 1) |-> FALSE] ELSE <<>>
    /\ waits = <<>> /\ resp = None /\ nreq = 0 /\ call = None

Init == \E b \in Builds : InitWith(b, <<>>)

Next ==
    \/ setup
    \/ \E line \in ModLines \cup LedLines : Send(line)
    \/ Arrive
    \/ loopMod
    \/ loopLed
    \/ Elapse
    \/ delayReturn
    \/ \E id \in Ids : TurnModuleOn(id)
    \/ \E id \in Ids : TurnModuleOff(id)
    \/ \E ms \in Millis : Wait(ms)
    \/ WaitElapse
    \/ \E i \in 1..MaxWaits : WaitResume(i)
    \/ GetModulesStatus
    \/ \E ev \in {"", "boot"} : GetTemperature(ev)
    \/ CallEncenderModulo
    \/ CallApagarModulo
    \/ CallEsperar
    \/ CallLeerTemperatura
    \/ CallObtenerEstadoModulos

Spec == Init /\ [][Next]_vars

-----------------------------------------------------------------------------------------------------------------------------------------------------
(* Vocabulary of the properties, stated without the sketches' own helpers *)

\* s without its leading and trailing whitespace
Trimmed(s) ==
    LET ink == {i \in 1..Len(s) : s[i] \notin Whitespace} IN
    IF ink = {} THEN <<>>
    ELSE SubSeq(s, CHOOSE i \in ink : \A j \in ink : i <= j,
                   CHOOSE i \in ink : \A j \in ink : i >= j)

IsPrefix(p, t) == Len(p) <= Len(t) /\ \A i \in 1..Len(p) : t[i] = p[i]

Dispatched == Sketch /\ disp # None
Answered == prog = "http" /\ resp # None

\* The text of the latest dispatched command
cmdText == Trimmed(disp.raw)

\* The command with text t is ON:n / OFF:n, and its n as written in the text
IsOnOff(t) == IsPrefix(ON, t) \/ IsPrefix(OFF, t)
NOf(t) == IF IsPrefix(ON, t) THEN atol(substring(t, 3)) ELSE atol(substring(t, 4))
IsWait(t) == IsPrefix(WAIT, t)
IsQuery(t) == prog = "modulos" /\ t \in {STATUS, TEMP}
IsUnknown(t) == ~IsOnOff(t) /\ ~IsWait(t) /\ ~IsQuery(t)

ErrorLine ==
    IF prog = "modulos" THEN Msg("Error: Numero de modulo invalido", 0)
    ELSE Msg("Error: Numero de LED invalido", 0)

hwUnchanged == estadoModulos = disp.pre.estado /\ pin = disp.pre.pin

-----------------------------------------------------------------------------
(* C1: ON:n / OFF:n with n outside 1..NUM_MODULES (serial, both sketches) and
   TurnModuleOn(n) / TurnModuleOff(n) (HTTP) change no module state and no pin
   level, and answer with the error line / a 400. *)
C1_OutOfRangeRejected ==
    /\ Dispatched
          => LET t == cmdText IN
             (IsOnOff(t) /\ NOf(t) \notin 1..NumOut)
                => (hwUnchanged /\ disp.reply = <<ErrorLine>>)
    /\ (Answered /\ resp.req \in {"on", "off"} /\ resp.arg \notin 1..NUM_PORTS)
          => (modules = resp.pre /\ resp.code = 400)

(* C2: after ON:n (n in range) the next STATUS / GET status reports module n on,
   after OFF:n it reports it off, when no other ON/OFF was applied to module n in
   between: a status report shows every module as the last ON/OFF applied to it
   left it. *)
C2_StatusReportsLastCommand ==
    /\ (prog = "modulos" /\ disp # None /\ disp.reply[1] = Msg("Estado de los modulos:", 0))
          => /\ Len(disp.reply) = NUM_MODULOS + 1
             /\ \A i \in 0..(NUM_MODULOS - 1) :
                   /\ lastCmd[i] = "on" => disp.reply[i + 2] = Msg("Modulo", <<i + 1, "ON">>)
                   /\ lastCmd[i] = "off" => disp.reply[i + 2] = Msg("Modulo", <<i + 1, "OFF">>)
    /\ (Answered /\ resp.req = "status")
          => \A i \in 0..(NUM_PORTS - 1) :
                /\ lastCmd[i] = "on" => resp.body[i] = TRUE
                /\ lastCmd[i] = "off" => resp.body[i] = FALSE

\* STATUS dispatched by the module sketch after an ON that was applied
C2_Witness ==
    /\ prog = "modulos" /\ disp # None
    /\ disp.raw = STATUS
    /\ \E i \in 0..(NUM_MODULOS - 1) : lastCmd[i] = "on"

(* C3: nothing is dispatched during a delay(), and every line that arrived during
   the delay is dispatched afterwards as a command of its own: while delay() runs
   the latest dispatch is the WAIT still in progress, and the loop() pass that takes
   input queued during a delay dispatches exactly one line of it. *)
C3_QueuedLinesDispatchedSingly ==
    /\ (Sketch /\ pc = "delay") => (disp # None /\ ~disp.done /\ IsWait(cmdText))
    /\ (Dispatched /\ disp.fromDelay) => disp.nl = 1

(* C4: inputBuffer, between dispatch cycles and when handed to procesarComando,
   holds characters of one line only, and is empty right after each dispatch. *)
C4_OneLineBuffered ==
    Sketch =>
        /\ Cardinality(bufLines) <= 1
        /\ disp # None => Cardinality(disp.lines) <= 1
        /\ pc = "loop" => ~commandComplete
        /\ bufLines = {} => inputBuffer = <<>>

(* C5: WAIT:n prints the progress line, blocks n ms, then prints a completion
   line, in both sketches. *)
C5_WaitCompletes ==
    (Dispatched /\ disp.done /\ IsWait(cmdText))
        => /\ disp.reply = <<Msg("Esperando ms", disp.delay), Msg("DONE waiting", 0)>>
           /\ disp.elapsed = disp.delay

(* C6: the facade's Wait refuses milliseconds <= 0 with a 400 without suspending,
   and for milliseconds > 0 suspends for that long and answers 200 "DONE waiting";
   the sketches take WAIT:0, delay for zero time and return with no error line. *)
C6_WaitZero ==
    /\ (Answered /\ resp.req = "wait")
          => IF resp.arg <= 0
             THEN resp.code = 400 /\ ~resp.suspended
             ELSE /\ resp.code = 200 /\ resp.body = "DONE waiting"
                  /\ resp.suspended /\ resp.elapsed = resp.arg
    /\ prog = "http" => \A i \in 1..Len(waits) : waits[i].ms > 0
    /\ (Dispatched /\ cmdText = WAIT \o <<"0">>)
          => /\ disp.done /\ pc = "loop" /\ disp.elapsed = 0
             /\ disp.reply[1] = Msg("Esperando ms", 0)
             /\ \A k \in 1..Len(disp.reply) : disp.reply[k] # ErrorLine
             /\ hwUnchanged

\* wait?milliseconds=0 refused while an earlier, positive Wait is still suspended
C6_Witness ==
    /\ Answered /\ resp.req = "wait" /\ resp.arg = 0 /\ resp.code = 400
    /\ Len(waits) = 1

(* C7: a line whose trimmed text is no recognised command is answered with
   "Comando no reconocido: " followed by the trimmed text, and changes no module
   state and no pin level. *)
C7_UnknownEchoed ==
    Dispatched
        => LET t == cmdText IN
           IsUnknown(t)
              => /\ disp.reply = <<Msg("Comando no reconocido: ", t)>>
                 /\ hwUnchanged /\ disp.done

\* " FOO " dispatched by the module sketch while a module is on
C7_Witness ==
    /\ prog = "modulos" /\ disp # None /\ disp.raw = <<" ">> \o FOO \o <<" ">>
    /\ disp.reply = <<Msg("Comando no reconocido: ", FOO)>>
    /\ \E i \in DOMAIN estadoModulos : estadoModulos[i]

(* C8: every MeadowClient method completes with a value whatever the HTTP call
   does: false / null on a non-2xx response, a transport failure or a body that
   does not deserialise; no exception reaches the caller; and a failed call does
   not change what a later call returns. *)
callOk ==
    /\ call.net = "2xx"
    /\ call.method \in {"EncenderModulo", "ApagarModulo"} => call.arg \in 1..3
    /\ call.method = "Esperar" => call.arg > 0
    /\ call.method = "LeerTemperatura" => call.body \in {"json", "other-json"}
    /\ call.method = "ObtenerEstadoModulos" => call.body = "json"

C8_ClientNeverRaises ==
    (prog = "client" /\ call # None)
        => /\ ~call.raised
           /\ ~callOk => call.result = (IF call.method \in {"LeerTemperatura",
                                                          "ObtenerEstadoModulos"}
                                        THEN Null ELSE FALSE)
           /\ callOk => call.result =
                 (CASE call.method = "LeerTemperatura" ->
                          IF call.body = "json" THEN call.payload ELSE 0
                    [] call.method = "ObtenerEstadoModulos" ->
                          [i \in 1..3 |-> call.payload[i]]
                    [] OTHER -> TRUE)

\* ObtenerEstadoModulos answered 200 with a body that is not JSON, after an
\* earlier call had failed
C8_Witness ==
    /\ prog = "client" /\ call # None /\ call.failedBefore
    /\ call.method = "ObtenerEstadoModulos" /\ call.body = "garbage" /\ call.net = "2xx"
    /\ call.result = Null

(* C9: module state changes only by ON/OFF: STATUS, TEMP, WAIT, unrecognised and
   rejected commands (GET status, GET temperature, POST wait, refused ids) leave
   every module as it was, and an accepted ON:n / OFF:n (TurnModuleOn(n) /
   TurnModuleOff(n)) changes module n only. *)
C9_OnlyOnOffMutates ==
    /\ (prog = "modulos" /\ disp = None) => \A i \in 0..(NUM_MODULOS - 1) : ~estadoModulos[i]
    /\ (prog = "modulos" /\ disp # None)
          => LET ack == disp.reply[1]
                 t   == cmdText
             IN
             /\ \A i \in 0..(NUM_MODULOS - 1) :
                   estadoModulos[i] # disp.pre.estado[i]
                      => /\ IsOnOff(t)
                         /\ ack.msg = (IF IsPrefix(ON, t) THEN "Modulo encendido"
                                       ELSE "Modulo apagado")
                         /\ ack.arg = i + 1
                         /\ NOf(t) \in 1..NUM_MODULOS => NOf(t) = i + 1
             /\ (IsQuery(t) \/ IsWait(t) \/ IsUnknown(t) \/ ack = ErrorLine)
                   => estadoModulos = disp.pre.estado
    /\ (prog = "http" /\ resp = None) => \A i \in 0..(NUM_PORTS - 1) : ~modules[i]
    /\ Answered
          => \A i \in 0..(NUM_PORTS - 1) :
                modules[i] # resp.pre[i]
                   => resp.req \in {"on", "off"} /\ resp.arg = i + 1 /\ resp.code = 200

\* OFF:1 dispatched by the module sketch with module 1 on
C9_Witness ==
    /\ prog = "modulos" /\ disp # None /\ disp.raw = OFF \o <<"1">>
    /\ disp.pre.estado[0] /\ ~estadoModulos[0]

(* C10: in the module sketch, after setup(), estadoModulos[i] is true exactly when
   the level last written to pinModulos[i] is LOW (pins start HIGH, ON drives LOW,
   OFF drives HIGH); in the LED sketch the polarity is the opposite (pins start
   LOW, ON drives HIGH, OFF drives LOW). *)
C10_StateMatchesPin ==
    /\ (prog = "modulos" /\ pc # "boot")
          => \A i \in 0..(NUM_MODULOS - 1) :
                /\ pin[i] = (IF estadoModulos[i] THEN "LOW" ELSE "HIGH")
                /\ estadoModulos[i] <=> lastCmd[i] = "on"
    /\ (prog = "leds" /\ pc # "boot")
          => \A i \in 0..(NUM_LEDS - 1) :
                pin[i] = (IF lastCmd[i] = "on" THEN "HIGH" ELSE "LOW")

\* the module sketch with module 1 switched on and off again
C10_Witness ==
    /\ prog = "modulos" /\ lastCmd[0] = "off" /\ pin[0] = "HIGH" /\ ~estadoModulos[0]
    /\ disp # None /\ disp.pre.estado[0]

====
